---- MODULE Spec2Model ----
(***************************************************************************)
(* gl-buffer: GLBufferWriter encodes GL calls into a Uint32 command-code   *)
(* stream plus one value buffer per command; GLBufferPlayer decodes such   *)
(* data into command records and replays them against a live target.      *)
(*                                                                         *)
(* JS values are modelled as tagged records (see V below), value buffers   *)
(* as sequences of bytes (offsets are 0-based as in the source, sequence   *)
(* indices are 1-based), JS strings as sequences of UTF-16 code units.     *)
(***************************************************************************)
EXTENDS Integers, Sequences, FiniteSets, TLC

VARIABLES
    uid,             \* misc.js: module-level counter behind UID()
    refKey,          \* host object -> its GL_REF_KEY property (0: no property)
    hasTextEncoder,  \* gl-buffer-writer.js:6  textEncoder !== null
    hasTextDecoder,  \* gl-buffer-player.js:6  textDecoder !== null
    heap,            \* JS arrays of value buffers, by allocation number
    wCommands,       \* writer.commands
    wValues,         \* writer.valueBuffers (a reference into heap)
    wRefMap,         \* writer.refMap, as a set of <<key, object>>
    wRefPrefix,      \* writer.refPrefix
    accepted,        \* history: the calls committed since the last clear
    wire,            \* results of getBuffer() not yet given to a player
    pCommands,       \* player.commands
    pSource,         \* history: the writer calls behind player.commands
    pPrefix,         \* history: the refPrefix of the data behind each of them
    pRefMap,         \* player.refMap, as a set of <<key, value>>
    glNext,          \* the target: number of the next live object it returns
    bound,           \* history: the results playback stored since reset
    calls,           \* history: the invocations of the session's last playback
    nCalls,          \* number of addCommand calls made so far
    nPlay,           \* number of playback calls made so far
    last             \* the last operation and how it ended

vars == <<uid, refKey, hasTextEncoder, hasTextDecoder, heap, wCommands, wValues,
          wRefMap, wRefPrefix, accepted, wire, pCommands, pSource, pPrefix, pRefMap,
          glNext, bound, calls, nCalls, nPlay, last>>

writerVars == <<uid, refKey, heap, wCommands, wValues, wRefMap, accepted>>
playerVars == <<pCommands, pSource, pPrefix, pRefMap, glNext, bound, calls>>
envVars == <<hasTextEncoder, hasTextDecoder, wRefPrefix>>

-----------------------------------------------------------------------------
(* Bounds of the model *)

NObj == 2        \* host objects the caller can pass as handles
MaxCalls == 2    \* addCommand calls
MaxClears == 1   \* clearCommands / reset calls on the writer
MaxWire == 1     \* getBuffer results in flight
MaxPlay == 2     \* playback calls
MaxRecords == 3  \* records a player holds

Objs == 1..NObj

-----------------------------------------------------------------------------
(* JS values *)

V(t, n, s, w, h) == [t |-> t, n |-> n, s |-> s, w |-> w, h |-> h]
Undef == V("undef", 0, <<>>, 0, 0)
Num(n) == V("num", n, <<>>, 0, 0)
Bool(b) == V("bool", IF b THEN 1 ELSE 0, <<>>, 0, 0)
Str(s) == V("str", 0, s, 0, 0)          \* s: UTF-16 code units
TArr(ty, elems) == V("arr", ty, elems, 0, 0)  \* typed array of class number ty
Img(w, h, data) == V("img", 0, data, w, h)    \* ImageData
Obj(o) == V("obj", o, <<>>, 0, 0)        \* a host object, by identity
ObjList(os) == V("list", 0, os, 0, 0)    \* a JS array of host objects
Key(s) == V("key", 0, s, 0, 0)           \* a refMap key: refPrefix + id
KeyList(ks) == V("keys", 0, ks, 0, 0)    \* a JS array of refMap keys
Live(n) == V("live", n, <<>>, 0, 0)      \* an object the target returned
LiveList(ns) == V("lives", 0, ns, 0, 0)  \* a JS array the target returned
Patched == V("patched", 0, <<>>, 0, 0)   \* an argument an interceptor put in

Min(a, b) == IF a < b THEN a ELSE b
Pow256(k) == CASE k = 0 -> 1 [] k = 1 -> 256 [] k = 2 -> 65536 [] OTHER -> 16777216

\* the wrap-around of a `width`-byte unsigned integer; every number of the
\* model is non-negative and below 2^31, where the 4-byte wrap is the identity
Wrap(n, width) == IF width >= 4 THEN n ELSE n % Pow256(width)
Zeros(n) == [i \in 1..n |-> 0]

\* ToNumber followed by the modulo of an integer accessor: undefined and
\* objects give NaN, which is stored as 0.
ToUint(v, width) == IF v.t \in {"num", "bool"} THEN Wrap(v.n, width) ELSE 0

\* Number.prototype.toString, as code units
RECURSIVE Digits(_)
Digits(n) == IF n < 10 THEN <<48 + n>> ELSE Digits(n \div 10) \o <<48 + (n % 10)>>

-----------------------------------------------------------------------------
(* ArrayBuffer, DataView and typed arrays *)

\* the bytes of buf with `bytes` stored at offset p
SetBytes(buf, p, bytes) ==
    [i \in 1..Len(buf) |-> IF i > p /\ i <= p + Len(bytes) THEN bytes[i - p] ELSE buf[i]]

\* DataView accessors write big-endian when no littleEndian flag is passed
BigEndian(n, width) == [i \in 1..width |-> (n \div Pow256(width - i)) % 256]
FromBigEndian(bytes) ==
    LET RECURSIVE go(_, _)
        go(i, acc) == IF i > Len(bytes) THEN acc ELSE go(i + 1, acc * 256 + bytes[i])
    IN go(1, 0)

\* typed arrays use the platform byte order (little-endian)
ElemsBytes(bpe, elems) ==
    [i \in 1..(Len(elems) * bpe) |->
        (elems[((i - 1) \div bpe) + 1] \div Pow256((i - 1) % bpe)) % 256]
BytesElems(bpe, bytes) ==
    [k \in 1..(Len(bytes) \div bpe) |->
        LET RECURSIVE go(_, _)
            go(j, acc) == IF j = 0 THEN acc
                          ELSE go(j - 1, acc * 256 + bytes[(k - 1) * bpe + j])
        IN go(bpe, 0)]

\* view['set' + type](pointer, value): RangeError outside the buffer
DataViewSet(buf, width, p, v) ==
    IF p + width > Len(buf) THEN [buf |-> buf, err |-> TRUE]
    ELSE [buf |-> SetBytes(buf, p, BigEndian(ToUint(v, width), width)), err |-> FALSE]

\* view['get' + type](pointer): RangeError outside the buffer
DataViewGet(buf, width, p) ==
    IF p + width > Len(buf) THEN [n |-> 0, err |-> TRUE]
    ELSE [n |-> FromBigEndian(SubSeq(buf, p + 1, p + width)), err |-> FALSE]

\* new T(buffer, byteOffset, length): RangeError when the offset is not a
\* multiple of the element size or the view does not fit; a fractional
\* length is truncated
TypedViewOk(buf, bpe, p, n) == p % bpe = 0 /\ p + n * bpe <= Len(buf)

-----------------------------------------------------------------------------
(* TextEncoder / TextDecoder('utf-8') *)

Utf8Char(c) ==
    IF c < 128 THEN <<c>>
    ELSE IF c < 2048 THEN <<192 + (c \div 64), 128 + (c % 64)>>
    ELSE <<224 + (c \div 4096), 128 + ((c \div 64) % 64), 128 + (c % 64)>>

RECURSIVE Utf8Encode(_)
Utf8Encode(s) == IF s = <<>> THEN <<>> ELSE Utf8Char(Head(s)) \o Utf8Encode(Tail(s))

IsCont(b) == b >= 128 /\ b < 192
Replacement == <<65533>>

\* decode without `fatal`: an ill-formed sequence becomes U+FFFD and decoding
\* resumes at the byte that broke it; a leading byte order mark is dropped
RECURSIVE Utf8DecodeFrom(_, _)
Utf8DecodeFrom(b, i) ==
    IF i > Len(b) THEN <<>>
    ELSE LET c == b[i] IN
      IF c < 128 THEN <<c>> \o Utf8DecodeFrom(b, i + 1)
      ELSE IF c >= 194 /\ c < 224 THEN
          IF i + 1 <= Len(b) /\ IsCont(b[i + 1])
          THEN <<(c - 192) * 64 + (b[i + 1] - 128)>> \o Utf8DecodeFrom(b, i + 2)
          ELSE Replacement \o Utf8DecodeFrom(b, i + 1)
      ELSE IF c >= 224 /\ c < 240 THEN
          IF i + 1 <= Len(b) /\ IsCont(b[i + 1]) /\ (c # 224 \/ b[i + 1] >= 160)
          THEN IF i + 2 <= Len(b) /\ IsCont(b[i + 2])
               THEN <<(c - 224) * 4096 + (b[i + 1] - 128) * 64 + (b[i + 2] - 128)>>
                    \o Utf8DecodeFrom(b, i + 3)
               ELSE Replacement \o Utf8DecodeFrom(b, i + 2)
          ELSE Replacement \o Utf8DecodeFrom(b, i + 1)
      ELSE Replacement \o Utf8DecodeFrom(b, i + 1)

Utf8Decode(b) ==
    LET s == Utf8DecodeFrom(b, 1)
    IN IF s # <<>> /\ Head(s) = 65279 THEN Tail(s) ELSE s

-----------------------------------------------------------------------------
(* common/gl-types, common/gl-commands, common/util: the command registry *)

\* a type marker: the DataView accessor's width for the fixed-width types
\* (bytesCount), 0 for the three variable-width markers
bytesCount(ty) ==
    CASE ty = "GLenum" -> 4
      [] ty = "GLuint" -> 4
      [] ty = "GLboolean" -> 1
      [] ty = "GLref" -> 4
      [] ty = "GLlocation" -> 4
      [] OTHER -> 0

\* ArrayBufferTypes: typed-array class number -> BYTES_PER_ELEMENT
\* (1: Uint8Array, 2: Uint16Array, 3: Uint8ClampedArray)
GLUint8Array == [num |-> 1, bpe |-> 1]
GLUint16Array == [num |-> 2, bpe |-> 2]
GLUint8ClampedArray == [num |-> 3, bpe |-> 1]
NoArrayType == [num |-> 0, bpe |-> 0]
ArrayBufferTypes == {GLUint8Array, GLUint16Array, GLUint8ClampedArray}

getTypeOfArrayByNum(num) ==
    IF \E a \in ArrayBufferTypes : a.num = num
    THEN CHOOSE a \in ArrayBufferTypes : a.num = num
    ELSE NoArrayType

\* the class of a concrete typed array
getTypeOfArray(arr) == getTypeOfArrayByNum(arr.n)

Cmd(num, name, argTypes, returnType, returnList) ==
    [num |-> num, name |-> name, argTypes |-> argTypes,
     returnType |-> returnType, returnList |-> returnList]
NoCommand == Cmd(0, "", <<>>, "none", FALSE)

\* the catalog: a sample with every type variant and both return shapes
\* (texImage2D reduced to its target and pixel arguments)
CommandTable == <<
    Cmd(1, "createBuffer", <<>>, "GLref", FALSE),
    Cmd(2, "bindBuffer", <<"GLenum", "GLref">>, "none", FALSE),
    Cmd(3, "bufferData", <<"GLenum", "GLarraybuffer", "GLenum">>, "none", FALSE),
    Cmd(4, "shaderSource", <<"GLref", "GLstring">>, "none", FALSE),
    Cmd(5, "texImage2D", <<"GLenum", "GLimage">>, "none", FALSE),
    Cmd(6, "depthMask", <<"GLboolean">>, "none", FALSE),
    Cmd(7, "finish", <<>>, "none", FALSE),
    Cmd(8, "getAttachedShaders", <<"GLref">>, "GLref", TRUE),
    Cmd(9, "uniformMatrix2fv", <<"GLlocation", "GLboolean", "GLarraybuffer">>, "none", FALSE),
    Cmd(10, "getUniformLocation", <<"GLref", "GLstring">>, "GLlocation", FALSE) >>

\* commands whose trailing pseudo-argument is the handle (or handles) created
GLrefCreators == {"createBuffer", "getAttachedShaders"}

getCommandTypes(name) ==
    IF \E i \in DOMAIN CommandTable : CommandTable[i].name = name
    THEN CommandTable[CHOOSE i \in DOMAIN CommandTable : CommandTable[i].name = name]
    ELSE NoCommand

getCommandTypesByNum(num) ==
    IF num \in DOMAIN CommandTable THEN CommandTable[num] ELSE NoCommand

-----------------------------------------------------------------------------
(* GLBufferWriter: the layout pass *)

\* an entry of bufferTypes: a number, or (with a TextEncoder) the encoded
\* bytes of a string until _writeArgValues replaces them by their length
BT(n) == [n |-> n, b |-> <<>>, isBytes |-> FALSE]
BTBytes(b) == [n |-> 0, b |-> b, isBytes |-> TRUE]

\* value[GL_REF_KEY]
RefKeyOf(keys, v) == IF v.t = "obj" /\ keys[v.n] # 0 THEN Num(keys[v.n]) ELSE Undef

\* gl-buffer-writer.js:213-243, one iteration: the header entries an argument
\* contributes and the bytes it will occupy
LayoutArg(ty, arg, enc) ==
    CASE ty = "GLarraybuffer" ->
           LET arrType == getTypeOfArray(arg)
               bc == Len(arg.s) * arrType.bpe
           IN [bt |-> <<BT(arrType.num), BT(bc)>>, bytes |-> bc]
      [] ty = "GLstring" ->
           IF enc
           THEN LET arr == Utf8Encode(arg.s)
                IN [bt |-> <<BTBytes(arr)>>, bytes |-> Len(arr)]
           ELSE [bt |-> <<BT(Len(arg.s) * 2)>>, bytes |-> Len(arg.s) * 2]
      [] ty = "GLimage" ->
           [bt |-> <<BT(arg.w), BT(arg.h)>>, bytes |-> Len(arg.s)]
      [] OTHER -> [bt |-> <<>>, bytes |-> bytesCount(ty)]

\* the bytes of the return slot (gl-buffer-writer.js:245-253)
ReturnSlotBytes(d, args) ==
    IF d.returnType = "none" THEN 0
    ELSE IF d.returnList THEN bytesCount(d.returnType) * Len(args[Len(args)].s)
    ELSE bytesCount(d.returnType)

\* _getBufferTypes(commandTypes, ...args); widths is the per-argument
\* bytesCount of the loop, kept for the history
_getBufferTypes(d, args, enc) ==
    LET types == d.argTypes
        RECURSIVE go(_, _)
        go(i, acc) ==
            IF i > Len(types) THEN acc
            ELSE LET a == LayoutArg(types[i], args[i], enc)
                 IN go(i + 1, [bufferTypes |-> acc.bufferTypes \o a.bt,
                               size |-> acc.size + a.bytes,
                               widths |-> Append(acc.widths, a.bytes)])
        r == go(1, [bufferTypes |-> <<>>, size |-> 0, widths |-> <<>>])
    IN [bufferTypes |-> r.bufferTypes,
        size |-> r.size + ReturnSlotBytes(d, args),
        widths |-> r.widths]

-----------------------------------------------------------------------------
(* GLBufferWriter: the write pass *)

\* _writeBuffer(buffer, value, type, pointer, size): a typed view of class
\* `type` over size bytes at pointer, filled from a string's char codes or by
\* arr.set(value); set() copies nothing from an object that has no length
\* (an ImageData) and throws when a typed-array source is longer than the view
_writeBuffer(buf, value, type, pointer, size) ==
    LET arrType == getTypeOfArrayByNum(type)
        bpe == arrType.bpe
        n == IF bpe = 0 THEN 0 ELSE size \div bpe
    IN IF bpe = 0 \/ ~TypedViewOk(buf, bpe, pointer, n)
       THEN [buf |-> buf, err |-> TRUE]
       ELSE IF value.t = "str"
       THEN [buf |-> SetBytes(buf, pointer,
                         ElemsBytes(bpe, SubSeq(value.s, 1, Min(Len(value.s), n)))),
             err |-> FALSE]
       ELSE IF value.t = "arr"
       THEN IF Len(value.s) > n THEN [buf |-> buf, err |-> TRUE]
            ELSE [buf |-> SetBytes(buf, pointer, ElemsBytes(bpe, value.s)), err |-> FALSE]
       ELSE [buf |-> buf, err |-> FALSE]

\* gl-buffer-writer.js:125-161, one iteration of the argument loop
WriteArg(st, ty, arg, keys, enc) ==
    CASE ty = "GLarraybuffer" ->
           LET r == _writeBuffer(st.buf, arg, st.bt[st.btp + 1].n, st.pointer,
                                 st.bt[st.btp + 2].n)
           IN [buf |-> r.buf, pointer |-> st.pointer + st.bt[st.btp + 2].n,
               bt |-> st.bt, btp |-> st.btp + 2, err |-> r.err]
      [] ty = "GLstring" ->
           IF enc
           THEN LET strBytes == st.bt[st.btp + 1].b
                    fits == st.pointer + Len(strBytes) <= Len(st.buf)
                IN [buf |-> IF fits THEN SetBytes(st.buf, st.pointer, strBytes) ELSE st.buf,
                    pointer |-> st.pointer + Len(strBytes),
                    bt |-> [st.bt EXCEPT ![st.btp + 1] = BT(Len(strBytes))],
                    btp |-> st.btp + 1, err |-> ~fits]
           ELSE LET r == _writeBuffer(st.buf, arg, GLUint16Array.num, st.pointer,
                                      st.bt[st.btp + 1].n)
                IN [buf |-> r.buf, pointer |-> st.pointer + st.bt[st.btp + 1].n,
                    bt |-> st.bt, btp |-> st.btp + 1, err |-> r.err]
      [] ty = "GLimage" ->
           LET w == st.bt[st.btp + 1].n
               h == st.bt[st.btp + 2].n
               r == _writeBuffer(st.buf, arg, GLUint8ClampedArray.num, st.pointer, w * h * 4)
           IN [buf |-> r.buf, pointer |-> st.pointer + w * h * 4,
               bt |-> st.bt, btp |-> st.btp + 2, err |-> r.err]
      [] OTHER ->
           LET value == IF ty = "GLref" THEN RefKeyOf(keys, arg)
                        ELSE IF ty = "GLboolean" THEN Bool(arg.t \in {"num", "bool"} /\ arg.n # 0)
                        ELSE arg
               r == DataViewSet(st.buf, bytesCount(ty), st.pointer, value)
           IN [buf |-> r.buf, pointer |-> st.pointer + bytesCount(ty),
               bt |-> st.bt, btp |-> st.btp, err |-> r.err]

\* gl-buffer-writer.js:162-178: the anticipated result's id (or ids) in the
\* trailing return slot
WriteReturn(st, d, values, keys) ==
    LET rt == d.returnType
        bc == bytesCount(rt)
        rv == values[Len(values)]
        Ser(x) == IF rt = "GLref" THEN RefKeyOf(keys, x) ELSE x
    IN IF rt = "none" THEN st
       ELSE IF d.returnList
       THEN LET RECURSIVE each(_, _)
                each(k, s) ==
                    IF k > Len(rv.s) \/ s.err THEN s
                    ELSE LET r == DataViewSet(s.buf, bc, s.pointer, Ser(Obj(rv.s[k])))
                         IN each(k + 1, [s EXCEPT !.buf = r.buf, !.err = r.err,
                                                  !.pointer = s.pointer + bc])
            IN each(1, st)
       ELSE LET r == DataViewSet(st.buf, bc, st.pointer, Ser(rv))
            IN [st EXCEPT !.buf = r.buf, !.err = r.err]

\* _writeArgValues(values, commandTypes, bufferTypes, size)
_writeArgValues(values, d, bufferTypes, size, keys, enc) ==
    LET types == d.argTypes
        st0 == [buf |-> Zeros(size), pointer |-> 0, bt |-> bufferTypes, btp |-> 0,
                err |-> FALSE]
        RECURSIVE go(_, _)
        go(i, st) == IF i > Len(types) \/ st.err THEN st
                     ELSE go(i + 1, WriteArg(st, types[i], values[i], keys, enc))
        st1 == go(1, st0)
    IN IF Len(values) = 0 THEN st0
       ELSE IF st1.err THEN st1
       ELSE WriteReturn(st1, d, values, keys)

\* a code stream that carries the number of header words after each code word
_writeCommandWithCount(d, bufferTypes) ==
    <<d.num, Len(bufferTypes)>> \o [k \in 1..Len(bufferTypes) |-> bufferTypes[k].n]

\* _writeCommand(commandTypes, bufferTypes): the words appended to commands
_writeCommand(d, bufferTypes) ==
    <<d.num>> \o [k \in 1..Len(bufferTypes) |-> bufferTypes[k].n]

\* gl-buffer-writer.js:62-77: the objects that get a fresh key
Handles(name, args) ==
    IF name \in GLrefCreators
    THEN LET obj == args[Len(args)]
         IN IF obj.t = "list" THEN obj.s ELSE <<obj.n>>
    ELSE <<>>

\* UID(): the value returned; the counter is then one more
UID(counter) == counter

\* the forEach of gl-buffer-writer.js:65-71 (one object when not an array)
TagHandles(os, st) ==
    LET RECURSIVE go(_, _)
        go(k, s) ==
            IF k > Len(os) THEN s
            ELSE IF s.refKey[os[k]] # 0 THEN go(k + 1, s)
            ELSE LET key == UID(s.uid)
                 IN go(k + 1, [uid |-> s.uid + 1,
                               refKey |-> [s.refKey EXCEPT ![os[k]] = key],
                               refMap |-> s.refMap \cup {<<key, os[k]>>}])
    IN go(1, st)

-----------------------------------------------------------------------------
(* GLBufferPlayer: decoding *)

\* comBuffer[cPt] (0-based); -1 stands for the undefined read past the end
Word(com, cPt) == IF cPt < Len(com) THEN com[cPt + 1] ELSE -1

\* refPrefix + v: string concatenation with the number's decimal digits
RefString(refPrefix, n) == refPrefix \o Digits(n)

\* _readArray(pt, values, arrType, arrSize): a typed view of the value buffer
_readArray(pt, buf, arrType, arrSize) ==
    LET bpe == arrType.bpe
        n == IF bpe = 0 \/ arrSize < 0 THEN 0 ELSE arrSize \div bpe
    IN IF bpe = 0 \/ arrSize < 0 \/ ~TypedViewOk(buf, bpe, pt, n)
       THEN [v |-> Undef, err |-> TRUE]
       ELSE [v |-> TArr(arrType.num, BytesElems(bpe, SubSeq(buf, pt + 1, pt + n * bpe))),
             err |-> FALSE]

\* _readString(pt, values, bytesCount)
_readString(pt, buf, bc, dec) ==
    IF bc < 0 THEN [v |-> Undef, err |-> TRUE]
    ELSE IF dec
    THEN IF ~TypedViewOk(buf, 1, pt, bc) THEN [v |-> Undef, err |-> TRUE]
         ELSE [v |-> Str(Utf8Decode(SubSeq(buf, pt + 1, pt + bc))), err |-> FALSE]
    ELSE IF ~TypedViewOk(buf, 2, pt, bc \div 2) THEN [v |-> Undef, err |-> TRUE]
         ELSE [v |-> Str(BytesElems(2, SubSeq(buf, pt + 1, pt + (bc \div 2) * 2))),
               err |-> FALSE]

\* _createImageData(arr, w, h): new ImageData throws unless arr holds
\* w * h * 4 > 0 bytes
_createImageData(arr, w, h) ==
    IF w <= 0 \/ h <= 0 \/ Len(arr.s) # w * h * 4 THEN [v |-> Undef, err |-> TRUE]
    ELSE [v |-> Img(w, h, arr.s), err |-> FALSE]

\* a decoder that takes one byte per pixel
ImageBytesOnePerPixel(w, h) == w * h

\* gl-buffer-player.js:112: the bytes of a w x h image
ImageBytes(w, h) == w * h * 4

\* gl-buffer-player.js:92-127, one iteration of the argument loop
ReadArg(st, ty, com, buf, refPrefix, dec) ==
    CASE ty = "GLarraybuffer" ->
           LET arrType == getTypeOfArrayByNum(Word(com, st.cPt))
               bc == Word(com, st.cPt + 1)
               r == _readArray(st.vPt, buf, arrType, bc)
           IN [cPt |-> st.cPt + 2, vPt |-> st.vPt + bc, args |-> Append(st.args, r.v),
               adv |-> Append(st.adv, bc), err |-> r.err]
      [] ty = "GLstring" ->
           LET bc == Word(com, st.cPt)
               r == _readString(st.vPt, buf, bc, dec)
           IN [cPt |-> st.cPt + 1, vPt |-> st.vPt + bc, args |-> Append(st.args, r.v),
               adv |-> Append(st.adv, bc), err |-> r.err]
      [] ty = "GLimage" ->
           LET w == Word(com, st.cPt)
               h == Word(com, st.cPt + 1)
               bc == ImageBytes(w, h)
               a == _readArray(st.vPt, buf, GLUint8ClampedArray, IF w < 0 \/ h < 0 THEN -1 ELSE bc)
               r == IF a.err THEN a ELSE _createImageData(a.v, w, h)
           IN [cPt |-> st.cPt + 2, vPt |-> st.vPt + bc, args |-> Append(st.args, r.v),
               adv |-> Append(st.adv, bc), err |-> r.err]
      [] OTHER ->
           LET g == DataViewGet(buf, bytesCount(ty), st.vPt)
               v == IF ty = "GLboolean" THEN Bool(g.n # 0)
                    ELSE IF ty \in {"GLref", "GLlocation"} THEN Key(RefString(refPrefix, g.n))
                    ELSE Num(g.n)
           IN [cPt |-> st.cPt, vPt |-> st.vPt + bytesCount(ty),
               args |-> Append(st.args, IF g.err THEN Undef ELSE v),
               adv |-> Append(st.adv, bytesCount(ty)), err |-> g.err]

\* gl-buffer-player.js:128-142: the return id, or the list of return ids read
\* until the end of the value buffer
ReadReturn(d, buf, vPt, refPrefix) ==
    LET bc == bytesCount(d.returnType)
    IN IF d.returnType = "none" THEN [ref |-> Num(0), vPt |-> vPt, err |-> FALSE]
       ELSE IF d.returnList
       THEN LET RECURSIVE each(_, _)
                each(pt, ids) ==
                    IF ~(pt < Len(buf)) THEN [ref |-> KeyList(ids), vPt |-> pt, err |-> FALSE]
                    ELSE LET g == DataViewGet(buf, bc, pt)
                         IN IF g.err THEN [ref |-> KeyList(ids), vPt |-> pt, err |-> TRUE]
                            ELSE each(pt + bc, Append(ids, RefString(refPrefix, g.n)))
            IN each(vPt, <<>>)
       ELSE LET g == DataViewGet(buf, bc, vPt)
            IN [ref |-> IF g.err THEN Undef ELSE Key(RefString(refPrefix, g.n)),
                vPt |-> vPt + bc, err |-> g.err]

\* _readCommand(cPt, comBuffer, values, refPrefix); adv (the advance of vPt per
\* argument) and vPt are kept for the history
_readCommand(cPt, com, buf, refPrefix, dec) ==
    LET d == getCommandTypesByNum(Word(com, cPt))
        types == d.argTypes
        RECURSIVE go(_, _)
        go(i, st) == IF i > Len(types) \/ st.err THEN st
                     ELSE go(i + 1, ReadArg(st, types[i], com, buf, refPrefix, dec))
        \* st1: the state after the argument loop, r: the return id read
        result(st1, r) ==
            [cPt |-> st1.cPt, vPt |-> r.vPt, adv |-> st1.adv, err |-> r.err,
             command |-> [name |-> d.name, types |-> types, args |-> st1.args,
                          ref |-> r.ref]]
        return(st1) ==
            result(st1, IF st1.err THEN [ref |-> Num(0), vPt |-> st1.vPt, err |-> TRUE]
                        ELSE ReadReturn(d, buf, st1.vPt, refPrefix))
    IN return(go(1, [cPt |-> cPt + 1, vPt |-> 0, args |-> <<>>, adv |-> <<>>,
                     err |-> d = NoCommand]))

\* _parse(data): the records pushed onto this.commands, and whether the walk
\* ended in an exception (the records pushed before it stay); new DataView
\* throws on a missing value buffer. reads keeps what each _readCommand
\* returned, for the history
_parse(data, values, dec) ==
    LET com == data.commands
        RECURSIVE go(_, _, _)
        \* c: what _readCommand returned for the command at vIdx
        push(c, vIdx, out) ==
            IF c.err THEN [reads |-> out, err |-> TRUE]
            ELSE go(c.cPt, vIdx + 1, Append(out, c))
        go(cPt, vIdx, out) ==
            IF ~(cPt < Len(com)) THEN [reads |-> out, err |-> FALSE]
            ELSE IF vIdx + 1 > Len(values) THEN [reads |-> out, err |-> TRUE]
            ELSE push(_readCommand(cPt, com, values[vIdx + 1], data.refPrefix, dec),
                      vIdx, out)
        result(r) == [commands |-> [k \in 1..Len(r.reads) |-> r.reads[k].command],
                      reads |-> r.reads, err |-> r.err]
    IN result(go(0, 0, <<>>))

-----------------------------------------------------------------------------
(* GLBufferPlayer: playback *)

\* this.refMap[key]
Lookup(refMap, key) ==
    IF \E p \in refMap : p[1] = key
    THEN (CHOOSE p \in refMap : p[1] = key)[2]
    ELSE Undef

\* a store that keeps the value a key already has
StoreKeepsFirst(refMap, key, value) ==
    IF \E p \in refMap : p[1] = key THEN refMap ELSE refMap \cup {<<key, value>>}

\* this.refMap[key] = value
Store(refMap, key, value) == {p \in refMap : p[1] # key} \cup {<<key, value>>}

\* Array.prototype.toString: the elements joined by ","
RECURSIVE Join(_)
Join(ks) == IF ks = <<>> THEN <<>>
            ELSE IF Len(ks) = 1 THEN ks[1]
            ELSE ks[1] \o <<44>> \o Join(Tail(ks))

\* the property key `ref` becomes in this.refMap[ref]
PropertyKey(ref) == IF ref.t = "keys" THEN Join(ref.s) ELSE ref.s

\* if (ref): 0 is falsy; a non-empty string and any array are truthy
Truthy(ref) == ref.t = "keys" \/ (ref.t = "key" /\ ref.s # <<>>)

\* _prepareArgs(command)
_prepareArgs(command, refMap) ==
    [i \in 1..Len(command.types) |->
        IF command.types[i] \in {"GLref", "GLlocation"}
        THEN Lookup(refMap, command.args[i].s)
        ELSE command.args[i]]

\* the interceptor of the model: it replaces every argument
StepPatch(name, rargs) == [i \in 1..Len(rargs) |-> Patched]

\* the target: an operation that creates returns fresh live objects, a list
\* of them for a list-returning operation
TargetResult(ref, next) ==
    IF ref.t = "key" THEN Live(next)
    ELSE IF ref.t = "keys" THEN LiveList([k \in 1..Len(ref.s) |-> next + k - 1])
    ELSE Undef
TargetCreated(ref) ==
    IF ref.t = "key" THEN 1 ELSE IF ref.t = "keys" THEN Len(ref.s) ELSE 0

\* gl-buffer-player.js:25-35, one iteration of the forEach; the target lacks
\* the operation or throws in it when i = throwAt
PlayOne(st, c, i, throwAt, step) ==
    LET ref == c.ref
        resolved == _prepareArgs(c, st.refMap)
        rargs == IF step THEN StepPatch(c.name, resolved) ELSE resolved
        result == TargetResult(ref, st.glNext)
        call == [idx |-> i, name |-> c.name, rec |-> c, resolved |-> resolved,
                 args |-> rargs, at |-> Len(st.bound), threw |-> i = throwAt]
    IN IF i = throwAt
       THEN [st EXCEPT !.calls = Append(st.calls, call), !.err = TRUE]
       ELSE [refMap |-> IF Truthy(ref) THEN Store(st.refMap, PropertyKey(ref), result)
                        ELSE st.refMap,
             glNext |-> st.glNext + TargetCreated(ref),
             bound |-> IF Truthy(ref)
                       THEN Append(st.bound, [ref |-> ref, result |-> result])
                       ELSE st.bound,
             calls |-> Append(st.calls, call),
             err |-> FALSE]

\* a playback that passes over the first record
playbackSkipsFirst(commands, st0, throwAt, step) ==
    LET RECURSIVE go(_, _)
        go(i, st) == IF i > Len(commands) \/ st.err THEN st
                     ELSE go(i + 1, PlayOne(st, commands[i], i, throwAt, step))
    IN go(2, st0)

\* a playback that catches what the target throws and goes on
playbackGoesOn(commands, st0, throwAt, step) ==
    LET RECURSIVE go(_, _)
        go(i, st) == IF i > Len(commands) THEN st
                     ELSE go(i + 1, PlayOne(st, commands[i], i, throwAt, step))
    IN go(1, st0)

\* playback(gl, step): the forEach stops at the first exception
playback(commands, st0, throwAt, step) ==
    LET RECURSIVE go(_, _)
        go(i, st) == IF i > Len(commands) \/ st.err THEN st
                     ELSE go(i + 1, PlayOne(st, commands[i], i, throwAt, step))
    IN go(1, st0)

-----------------------------------------------------------------------------
(* GLBufferWriter: the public operations, on a writer w =                   *)
(* [commands, values, refMap] and the state shared with it g =              *)
(* [uid, refKey, heap]                                                      *)

\* a count that expects the return handle of every command
ArgsWantedAlwaysHandle(d) == Len(d.argTypes) + 1

\* gl-buffer-writer.js:29-32: the number of arguments addCommand insists on
ArgsWanted(d) == Len(d.argTypes) + (IF d.returnType # "none" THEN 1 ELSE 0)

\* a _saveCommand that pushes the code words before it writes the values
_saveCommandCodeFirst(d, name, args, w, g, enc) ==
    LET result(tagged, lay, wr) ==
            [err |-> wr.err,
             widths |-> lay.widths,
             w |-> [commands |-> w.commands \o _writeCommand(d, wr.bt),
                    values |-> w.values,
                    refMap |-> tagged.refMap],
             g |-> [uid |-> tagged.uid,
                    refKey |-> tagged.refKey,
                    heap |-> IF wr.err THEN g.heap
                             ELSE [g.heap EXCEPT ![w.values] = Append(@, wr.buf)]]]
        write(tagged, lay) ==
            result(tagged, lay,
                   _writeArgValues(args, d, lay.bufferTypes, lay.size, tagged.refKey, enc))
    IN write(TagHandles(Handles(name, args),
                        [uid |-> g.uid, refKey |-> g.refKey, refMap |-> w.refMap]),
             _getBufferTypes(d, args, enc))

\* _saveCommand(commandTypes, name, ...args): the handles are tagged first;
\* an exception in the write pass leaves them tagged and commits nothing else
_saveCommand(d, name, args, w, g, enc) ==
    LET \* tagged: the keys after the forEach, lay: what _getBufferTypes
        \* returned, wr: what _writeArgValues returned
        result(tagged, lay, wr) ==
            [err |-> wr.err,
             widths |-> lay.widths,
             w |-> [commands |-> IF wr.err THEN w.commands
                                 ELSE w.commands \o _writeCommand(d, wr.bt),
                    values |-> w.values,
                    refMap |-> tagged.refMap],
             g |-> [uid |-> tagged.uid,
                    refKey |-> tagged.refKey,
                    heap |-> IF wr.err THEN g.heap
                             ELSE [g.heap EXCEPT ![w.values] = Append(@, wr.buf)]]]
        write(tagged, lay) ==
            result(tagged, lay,
                   _writeArgValues(args, d, lay.bufferTypes, lay.size, tagged.refKey, enc))
    IN write(TagHandles(Handles(name, args),
                        [uid |-> g.uid, refKey |-> g.refKey, refMap |-> w.refMap]),
             _getBufferTypes(d, args, enc))

\* an addCommand that records an unknown name as code 0 with an empty buffer
addCommandKeepsUnknown(name, args, w, g, enc) ==
    LET d == getCommandTypes(name)
        saved(r) == [outcome |-> IF r.err THEN "throw" ELSE "ok", w |-> r.w, g |-> r.g,
                     widths |-> r.widths]
    IN IF d = NoCommand
       THEN [outcome |-> "ignored",
             w |-> [w EXCEPT !.commands = Append(w.commands, 0)],
             g |-> [g EXCEPT !.heap = [g.heap EXCEPT ![w.values] = Append(@, <<>>)]],
             widths |-> <<>>]
       ELSE IF ArgsWanted(d) # Len(args)
       THEN [outcome |-> "argcount", w |-> w, g |-> g, widths |-> <<>>]
       ELSE saved(_saveCommand(d, name, args, w, g, enc))

\* addCommand(name, ...args)
addCommand(name, args, w, g, enc) ==
    LET d == getCommandTypes(name)
        saved(r) == [outcome |-> IF r.err THEN "throw" ELSE "ok", w |-> r.w, g |-> r.g,
                     widths |-> r.widths]
    IN IF d = NoCommand
       THEN [outcome |-> "ignored", w |-> w, g |-> g, widths |-> <<>>]
       ELSE IF ArgsWanted(d) # Len(args)
       THEN [outcome |-> "argcount", w |-> w, g |-> g, widths |-> <<>>]
       ELSE saved(_saveCommand(d, name, args, w, g, enc))

\* getBuffer(): commands are copied into a Uint32Array, values is the
\* writer's own array
getBuffer(w, refPrefix) ==
    [refPrefix |-> refPrefix,
     commands |-> [k \in 1..Len(w.commands) |-> Wrap(w.commands[k], 4)],
     values |-> w.values]

Writer == [commands |-> wCommands, values |-> wValues, refMap |-> wRefMap]
Shared == [uid |-> uid, refKey |-> refKey, heap |-> heap]

-----------------------------------------------------------------------------
(* The calls the caller makes *)

GL_ARRAY_BUFFER == Num(34962)
GL_STATIC_DRAW == Num(35044)
GL_TEXTURE_2D == Num(3553)

Strings == {<<233, 98>>}
Pixels == {Img(1, 1, <<1, 2, 3, 255>>)}

GoodCalls ==
    {<<"createBuffer", <<Obj(o)>>>> : o \in Objs}
    \cup {<<"bindBuffer", <<GL_ARRAY_BUFFER, Obj(o)>>>> : o \in Objs}
    \cup {<<"bufferData", <<GL_ARRAY_BUFFER, TArr(GLUint16Array.num, <<258, 7>>), GL_STATIC_DRAW>>>>}
    \cup {<<"shaderSource", <<Obj(1), Str(s)>>>> : s \in Strings}
    \cup {<<"texImage2D", <<GL_TEXTURE_2D, img>>>> : img \in Pixels}
    \cup {<<"depthMask", <<Bool(TRUE)>>>>, <<"finish", <<>>>>}
    \cup {<<"getAttachedShaders", <<Obj(1), ObjList(<<1, NObj>>)>>>>}
    \cup {<<"uniformMatrix2fv", <<Num(7), Bool(FALSE), TArr(GLUint8Array.num, <<1, 2, 3, 4>>)>>>>,
          <<"uniformMatrix2fv", <<Num(7), Bool(FALSE), TArr(GLUint16Array.num, <<1, 2>>)>>>>}
    \cup {<<"getUniformLocation", <<Obj(1), Str(<<97>>), Num(7)>>>>}

\* names the registry does not know, and known names with a wrong count
OtherCalls ==
    {<<"hint", <<Num(1), Obj(1)>>>>,
     <<"createBuffer", <<>>>>, <<"bindBuffer", <<GL_ARRAY_BUFFER>>>>,
     <<"finish", <<Obj(1)>>>>}

CallInputs == GoodCalls \cup OtherCalls

-----------------------------------------------------------------------------
(* Actions *)

Op(op, outcome, name, nargs) ==
    [op |-> op, outcome |-> outcome, name |-> name, nargs |-> nargs]

\* what the writer put into the value buffer for a GLref argument: the
\* object's key as the Uint32 accessor stores it
Serialized(keys, ty, arg) == IF ty = "GLref" THEN ToUint(RefKeyOf(keys, arg), 4) ELSE 0

\* no writer has run, the player is new
Init ==
    /\ uid = 1
    /\ refKey = [o \in Objs |-> 0]
    /\ hasTextEncoder \in BOOLEAN
    /\ hasTextDecoder \in BOOLEAN
    /\ heap = << <<>> >>
    /\ wCommands = <<>>
    /\ wValues = 1
    /\ wRefMap = {}
    /\ wRefPrefix \in {<<>>, <<112>>}
    /\ accepted = <<>>
    /\ wire = {}
    /\ pCommands = <<>>
    /\ pSource = <<>>
    /\ pPrefix = <<>>
    /\ pRefMap = {}
    /\ glNext = 1
    /\ bound = <<>>
    /\ calls = <<>>
    /\ nCalls = 0
    /\ nPlay = 0
    /\ last = Op("new", "ok", "", 0)

\* writer.addCommand(name, ...args)
AddCommand(name, args) ==
    /\ nCalls < MaxCalls
    /\ LET d == getCommandTypes(name)
           done(r) ==
               /\ wCommands' = r.w.commands
               /\ wValues' = r.w.values
               /\ wRefMap' = r.w.refMap
               /\ uid' = r.g.uid
               /\ refKey' = r.g.refKey
               /\ heap' = r.g.heap
               /\ accepted' = IF r.outcome = "ok"
                              THEN Append(accepted,
                                     [name |-> name, args |-> args, widths |-> r.widths,
                                      ser |-> [j \in 1..Len(d.argTypes) |->
                                                 Serialized(r.g.refKey, d.argTypes[j], args[j])]])
                              ELSE accepted
               /\ last' = Op("addCommand", r.outcome, name, Len(args))
       IN done(addCommand(name, args, Writer, Shared, hasTextEncoder))
    /\ nCalls' = nCalls + 1
    /\ UNCHANGED <<envVars, wire, playerVars, nPlay>>

\* writer.clearCommands(): two new arrays
WriterClearCommands ==
    /\ Len(heap) <= MaxClears
    /\ wCommands' = <<>>
    /\ heap' = Append(heap, <<>>)
    /\ wValues' = Len(heap) + 1
    /\ accepted' = <<>>
    /\ last' = Op("clearCommands", "ok", "", 0)
    /\ UNCHANGED <<uid, refKey, wRefMap, envVars, wire, playerVars, nCalls, nPlay>>

\* writer.reset(): clearCommands() and a new refMap
WriterReset ==
    /\ Len(heap) <= MaxClears
    /\ wCommands' = <<>>
    /\ heap' = Append(heap, <<>>)
    /\ wValues' = Len(heap) + 1
    /\ wRefMap' = {}
    /\ accepted' = <<>>
    /\ last' = Op("reset", "ok", "", 0)
    /\ UNCHANGED <<uid, refKey, envVars, wire, playerVars, nCalls, nPlay>>

\* writer.getBuffer(); the result is kept until it is given to the player
GetBuffer ==
    /\ Cardinality(wire) < MaxWire
    /\ wCommands # <<>>
    /\ wire' = wire \cup {[data |-> getBuffer(Writer, wRefPrefix),
                           names |-> [k \in 1..Len(accepted) |-> accepted[k].name]]}
    /\ last' = Op("getBuffer", "ok", "", 0)
    /\ UNCHANGED <<writerVars, envVars, playerVars, nCalls, nPlay>>

\* player.addBuffer(data)
AddBuffer(m) ==
    /\ m \in wire
    /\ LET done(r) ==
               /\ Len(pCommands) + Len(r.commands) <= MaxRecords
               /\ pCommands' = pCommands \o r.commands
               /\ pSource' = pSource \o SubSeq(m.names, 1, Len(r.commands))
               /\ pPrefix' = pPrefix \o [k \in 1..Len(r.commands) |-> m.data.refPrefix]
               /\ last' = Op("addBuffer", IF r.err THEN "throw" ELSE "ok", "", 0)
       IN done(_parse(m.data, heap[m.data.values], hasTextDecoder))
    /\ wire' = wire \ {m}
    /\ UNCHANGED <<writerVars, envVars, pRefMap, glNext, bound, calls, nCalls, nPlay>>

\* a playback that empties the command list when it is done
PlaybackConsumes(throwAt, step) ==
    /\ nPlay < MaxPlay
    /\ pCommands # <<>>
    /\ LET done(r) ==
               /\ pRefMap' = r.refMap
               /\ glNext' = r.glNext
               /\ bound' = r.bound
               /\ calls' = r.calls
               /\ last' = Op("playback", IF r.err THEN "throw" ELSE "ok", "", throwAt)
       IN done(playback(pCommands,
                        [refMap |-> pRefMap, glNext |-> glNext, bound |-> bound,
                         calls |-> <<>>, err |-> FALSE],
                        throwAt, step))
    /\ pCommands' = <<>>
    /\ pSource' = <<>>
    /\ pPrefix' = <<>>
    /\ nPlay' = nPlay + 1
    /\ UNCHANGED <<writerVars, envVars, wire, nCalls>>

\* player.playback(gl, step)
Playback(throwAt, step) ==
    /\ nPlay < MaxPlay
    /\ pCommands # <<>>
    /\ LET done(r) ==
               /\ pRefMap' = r.refMap
               /\ glNext' = r.glNext
               /\ bound' = r.bound
               /\ calls' = r.calls
               /\ last' = Op("playback", IF r.err THEN "throw" ELSE "ok", "", throwAt)
       IN done(playback(pCommands,
                        [refMap |-> pRefMap, glNext |-> glNext, bound |-> bound,
                         calls |-> <<>>, err |-> FALSE],
                        throwAt, step))
    /\ nPlay' = nPlay + 1
    /\ UNCHANGED <<writerVars, envVars, wire, pCommands, pSource, pPrefix, nCalls>>

\* a clearCommands that drops the reference table as well
PlayerClearCommandsAndRefs ==
    /\ pCommands # <<>>
    /\ pCommands' = <<>>
    /\ pSource' = <<>>
    /\ pPrefix' = <<>>
    /\ pRefMap' = {}
    /\ last' = Op("playerClear", "ok", "", 0)
    /\ UNCHANGED <<writerVars, envVars, wire, glNext, bound, calls, nCalls, nPlay>>

\* player.clearCommands()
PlayerClearCommands ==
    /\ pCommands # <<>>
    /\ pCommands' = <<>>
    /\ pSource' = <<>>
    /\ pPrefix' = <<>>
    /\ last' = Op("playerClear", "ok", "", 0)
    /\ UNCHANGED <<writerVars, envVars, wire, pRefMap, glNext, bound, calls, nCalls, nPlay>>

\* a reset that keeps the reference table
PlayerResetKeepsRefs ==
    /\ pCommands # <<>> \/ pRefMap # {}
    /\ pCommands' = <<>>
    /\ pSource' = <<>>
    /\ pPrefix' = <<>>
    /\ bound' = <<>>
    /\ calls' = <<>>
    /\ last' = Op("playerReset", "ok", "", 0)
    /\ UNCHANGED <<writerVars, envVars, wire, pRefMap, glNext, nCalls, nPlay>>

\* player.reset()
PlayerReset ==
    /\ pCommands # <<>> \/ pRefMap # {}
    /\ pCommands' = <<>>
    /\ pSource' = <<>>
    /\ pPrefix' = <<>>
    /\ pRefMap' = {}
    /\ bound' = <<>>
    /\ calls' = <<>>
    /\ last' = Op("playerReset", "ok", "", 0)
    /\ UNCHANGED <<writerVars, envVars, wire, glNext, nCalls, nPlay>>

Next ==
    \/ \E c \in CallInputs : AddCommand(c[1], c[2])
    \/ WriterClearCommands
    \/ WriterReset
    \/ GetBuffer

\* the writer and what it hands out
Spec == Init /\ [][Next]_vars

-----------------------------------------------------------------------------
(* The player, fed with what a writer recorded *)

\* calls whose replay binds or resolves references
FeedCalls ==
    {<<"createBuffer", <<Obj(1)>>>>,
     <<"bindBuffer", <<GL_ARRAY_BUFFER, Obj(1)>>>>,
     <<"bindBuffer", <<GL_ARRAY_BUFFER, Obj(NObj)>>>>,
     <<"getAttachedShaders", <<Obj(1), ObjList(<<1, NObj>>)>>>>,
     <<"getUniformLocation", <<Obj(1), Str(<<97>>), Num(7)>>>>,
     <<"uniformMatrix2fv", <<Num(7), Bool(FALSE), TArr(GLUint8Array.num, <<1, 2, 3, 4>>)>>>>,
     <<"finish", <<>>>>}

MaxFeed == 2     \* calls recorded before the player starts

Feeds == UNION {[1..n -> FeedCalls] : n \in 1..MaxFeed}

\* a writer session: the calls of `feed` in order, with getBuffer() and
\* clearCommands() after the first `cut` calls (when 0 < cut < Len(feed))
\* and getBuffer() at the end; `first` is the value of the id counter when
\* the session begins
RecordedFrom(first, feed, cut, prefix, enc) ==
    LET RECURSIVE go(_, _)
        \* r: what addCommand returned for call k, names: the accepted names
        cutOrGo(k, st, r, names) ==
            IF k = cut
            THEN go(k + 1,
                    [w |-> [r.w EXCEPT !.commands = <<>>,
                                       !.values = Len(r.g.heap) + 1],
                     g |-> [r.g EXCEPT !.heap = Append(r.g.heap, <<>>)],
                     names |-> <<>>,
                     wire |-> st.wire \cup
                         {[data |-> getBuffer(r.w, prefix), names |-> names]}])
            ELSE go(k + 1, [st EXCEPT !.w = r.w, !.g = r.g, !.names = names])
        added(k, st, r) ==
            cutOrGo(k, st, r, IF r.outcome = "ok" THEN Append(st.names, feed[k][1])
                              ELSE st.names)
        go(k, st) ==
            IF k > Len(feed)
            THEN [st EXCEPT !.wire = st.wire \cup
                     {[data |-> getBuffer(st.w, prefix), names |-> st.names]}]
            ELSE added(k, st, addCommand(feed[k][1], feed[k][2], st.w, st.g, enc))
    IN go(1, [w |-> [commands |-> <<>>, values |-> 1, refMap |-> {}],
              g |-> [uid |-> first, refKey |-> [o \in Objs |-> 0], heap |-> << <<>> >>],
              names |-> <<>>, wire |-> {}])

\* the session of a writer in a page where no id has been handed out
Recorded(feed, cut, prefix, enc) == RecordedFrom(1, feed, cut, prefix, enc)

\* the player runs where the writer ran: both text codecs, or neither
InitPlayer ==
    /\ hasTextEncoder \in BOOLEAN
    /\ hasTextDecoder = hasTextEncoder
    /\ wRefPrefix \in {<<>>, <<112>>}
    /\ \E feed \in Feeds : \E cut \in 0..(Len(feed) - 1) :
          LET left(r) ==
                  /\ uid = r.g.uid
                  /\ refKey = r.g.refKey
                  /\ heap = r.g.heap
                  /\ wCommands = r.w.commands
                  /\ wValues = r.w.values
                  /\ wRefMap = r.w.refMap
                  /\ wire = r.wire
          IN left(Recorded(feed, cut, wRefPrefix, hasTextEncoder))
    /\ accepted = <<>>
    /\ pCommands = <<>>
    /\ pSource = <<>>
    /\ pPrefix = <<>>
    /\ pRefMap = {}
    /\ glNext = 1
    /\ bound = <<>>
    /\ calls = <<>>
    /\ nCalls = 0
    /\ nPlay = 0
    /\ last = Op("new", "ok", "", 0)

NextPlayer ==
    \/ \E m \in wire : AddBuffer(m)
    \/ \E k \in 0..Len(pCommands), step \in BOOLEAN : Playback(k, step)
    \/ PlayerClearCommands
    \/ PlayerReset

SpecPlayer == InitPlayer /\ [][NextPlayer]_vars

-----------------------------------------------------------------------------
(* Properties of the writer (under Spec) *)

\* what getBuffer() would return now, and what a new player makes of it
Data == getBuffer(Writer, wRefPrefix)
Decoded == _parse(Data, heap[wValues], hasTextDecoder)

\* the offset of argument j in a value buffer laid out with these widths
Offset(widths, j) ==
    LET RECURSIVE sum(_)
        sum(k) == IF k = 0 THEN 0 ELSE sum(k - 1) + widths[k]
    IN sum(j - 1)

\* the Uint32 stored at offset p of the i-th value buffer
Stored(i, p) == DataViewGet(heap[wValues][i], 4, p).n

ArgTypes(name) == getCommandTypes(name).argTypes

\* a decoded argument equals the argument the caller passed
ArgEqual(ty, a, ser, d) ==
    CASE ty = "GLarraybuffer" -> d.t = "arr" /\ d.n = a.n /\ d.s = a.s
      [] ty = "GLstring" -> d.t = "str" /\ d.s = a.s
      [] ty = "GLimage" -> d.t = "img" /\ d.w = a.w /\ d.h = a.h /\ d.s = a.s
      [] ty = "GLboolean" -> d.t = "bool" /\ d.n = a.n
      [] ty = "GLref" -> d.t = "key" /\ d.s = RefString(wRefPrefix, ser)
      [] ty = "GLlocation" -> d.t = "key" /\ d.s = RefString(wRefPrefix, a.n)
      [] OTHER -> d.t = "num" /\ d.n = a.n

\* C1: round trip. Decoding what the writer hands out gives one record per
\* accepted command, in order, with the command's name and, argument by
\* argument, a value equal to the one passed (a Ref argument: the id that
\* was serialized, as the player spells it).
C1_RoundTrip ==
    /\ ~Decoded.err
    /\ Len(Decoded.commands) = Len(accepted)
    /\ \A i \in 1..Len(accepted) :
          LET c == Decoded.commands[i]
              a == accepted[i]
          IN /\ c.name = a.name
             /\ Len(c.args) = Len(ArgTypes(a.name))
             /\ \A j \in 1..Len(c.args) :
                   ArgEqual(ArgTypes(a.name)[j], a.args[j], a.ser[j], c.args[j])

\* C2: buffer symmetry. For every accepted command the player advances its
\* value offset, argument by argument, by the width the layout pass gave the
\* argument; it ends at the end of the value buffer, with the code pointer
\* on the next command's code word (or at the end of the stream).
C2_BufferSymmetry ==
    /\ Len(Decoded.reads) = Len(accepted)
    /\ \A i \in 1..Len(accepted) :
          LET r == Decoded.reads[i]
          IN /\ r.adv = accepted[i].widths
             /\ r.vPt = Len(heap[wValues][i])
             /\ IF i < Len(accepted)
                THEN Word(Data.commands, r.cPt) = getCommandTypes(accepted[i + 1].name).num
                ELSE r.cPt = Len(Data.commands)

\* a variable-width argument and a return slot were laid out and decoded
C2_Witness ==
    /\ C2_BufferSymmetry
    /\ Len(accepted) = 2
    /\ accepted[1].name = "texImage2D"
    /\ accepted[2].name = "getUniformLocation"
    /\ Decoded.reads[1].adv = <<4, 4>>
    /\ Decoded.reads[2].vPt = 4 + Len(Utf8Encode(<<97>>)) + 4

\* the Ref arguments among the accepted commands: <<command, argument>>
RefArgs == {p \in (1..Len(accepted)) \X (1..2) :
               /\ p[2] <= Len(ArgTypes(accepted[p[1]].name))
               /\ ArgTypes(accepted[p[1]].name)[p[2]] = "GLref"}

\* C3: allocation before use. The object of every Ref argument of an
\* accepted command has an id, and the value stored for the argument is that
\* id, never 0.
C3_AllocationBeforeUse ==
    \A p \in RefArgs :
        LET a == accepted[p[1]]
            o == a.args[p[2]].n
            id == Stored(p[1], Offset(a.widths, p[2]))
        IN refKey[o] # 0 /\ id = refKey[o] /\ id # 0

\* the objects serialized by the accepted commands, each with the id stored
\* for it: as a Ref argument, as the return handle, as one of the handles of
\* a returned list
Occurrences ==
    {<<accepted[p[1]].args[p[2]].n,
       Stored(p[1], Offset(accepted[p[1]].widths, p[2]))>> : p \in RefArgs}
    \cup UNION {
        LET a == accepted[i]
            d == getCommandTypes(a.name)
            h == a.args[Len(a.args)]
            base == Offset(a.widths, Len(a.widths) + 1)
        IN IF d.returnType # "GLref" THEN {}
           ELSE IF d.returnList
           THEN {<<h.s[k], Stored(i, base + 4 * (k - 1))>> : k \in 1..Len(h.s)}
           ELSE {<<h.n, Stored(i, base)>>}
        : i \in 1..Len(accepted)}

\* C4: id stability. Among the commands of the session two distinct objects
\* are never stored with the same id, and one object is stored with the same
\* id wherever it occurs.
C4_IdStability ==
    \A p, q \in Occurrences : (p[1] = q[1]) <=> (p[2] = q[2])

KnownNames == {CommandTable[i].name : i \in DOMAIN CommandTable}

\* what an addCommand step must leave alone when it commits nothing
WriterUntouched ==
    UNCHANGED <<wCommands, wValues, heap, wRefMap, uid, refKey>>

\* C9: argument count check. addCommand for a known name with a number of
\* arguments other than argTypes.length (plus 1 with a return type) fails
\* and leaves the code stream, the value buffers and the reference table
\* (the keys handed out included) as they were.
C9_ArgumentCountCheck ==
    [][(/\ nCalls' = nCalls + 1
        /\ last'.name \in KnownNames
        /\ LET d == CommandTable[CHOOSE i \in DOMAIN CommandTable :
                                    CommandTable[i].name = last'.name]
           IN last'.nargs # Len(d.argTypes) + (IF d.returnType = "none" THEN 0 ELSE 1))
       => (last'.outcome = "argcount" /\ WriterUntouched)]_vars

\* a wrong count was refused by a writer that holds commands and keys
C9_Witness ==
    /\ last.op = "addCommand"
    /\ last.outcome = "argcount"
    /\ wCommands # <<>>
    /\ wRefMap # {}

\* C10: unknown-command skip. addCommand with a name the registry does not
\* know returns normally and leaves the code stream, the value buffers and
\* the reference table as they were.
C10_UnknownCommandSkip ==
    [][(nCalls' = nCalls + 1 /\ last'.name \notin KnownNames)
       => (last'.outcome = "ignored" /\ WriterUntouched)]_vars

\* an unknown name with arguments was skipped by a writer that holds commands
C10_Witness ==
    /\ last.op = "addCommand"
    /\ last.outcome = "ignored"
    /\ last.nargs = 2
    /\ wCommands # <<>>

-----------------------------------------------------------------------------
(* Properties of the player (under SpecPlayer) *)

\* the Ref and Location arguments of the invocations of the last playback:
\* <<invocation, argument>>
RefUses == {p \in (1..Len(calls)) \X (1..3) :
               /\ p[2] <= Len(calls[p[1]].rec.types)
               /\ calls[p[1]].rec.types[p[2]] \in {"GLref", "GLlocation"}}

\* the results stored under `key` before invocation c of the last playback
StoredBefore(c, key) ==
    {e \in 1..Len(bound) : e <= calls[c].at /\ PropertyKey(bound[e].ref) = key}

Latest(es) == CHOOSE e \in es : \A f \in es : f <= e

Names(rs) == [k \in 1..Len(rs) |-> rs[k].name]

-----------------------------------------------------------------------------
(* Further properties of the writer (under Spec) *)

\* the commands encoded in a code stream: the positions (0-based) of their
\* code words, found by walking the headers (two words for an array or an
\* image argument, one for a string)
HeaderWords(d) ==
    LET RECURSIVE sum(_)
        sum(k) == IF k = 0 THEN 0
                  ELSE sum(k - 1) + (CASE d.argTypes[k] = "GLarraybuffer" -> 2
                                       [] d.argTypes[k] = "GLstring" -> 1
                                       [] d.argTypes[k] = "GLimage" -> 2
                                       [] OTHER -> 0)
    IN sum(Len(d.argTypes))

CodeStarts(com) ==
    LET RECURSIVE go(_, _)
        go(cPt, out) ==
            IF ~(cPt < Len(com)) THEN out
            ELSE go(cPt + 1 + HeaderWords(getCommandTypesByNum(Word(com, cPt))),
                    Append(out, cPt))
    IN go(0, <<>>)

\* C12: getBuffer is a snapshot. An object getBuffer() returned keeps as many
\* value buffers as its command words encode commands, whatever the writer
\* does afterwards.
C12_Snapshot ==
    \A m \in wire :
        Len(heap[m.data.values]) = Len(CodeStarts(m.data.commands))

\* the handles the accepted creating commands returned, each with the id
\* stored for it: <<id, object>>
Created ==
    UNION {
        LET a == accepted[i]
            d == getCommandTypes(a.name)
            h == a.args[Len(a.args)]
            base == Offset(a.widths, Len(a.widths) + 1)
        IN IF a.name \notin GLrefCreators THEN {}
           ELSE IF d.returnList
           THEN {<<Stored(i, base + 4 * (k - 1)), h.s[k]>> : k \in 1..Len(h.s)}
           ELSE {<<Stored(i, base), h.n>>}
        : i \in 1..Len(accepted)}

\* C15: per-table id space. The ids of the writer's reference table are
\* 1..n, n the number of objects the session gave an id to, and every handle
\* a creating command of the session returned is in the table under the id
\* serialized for it.
C15_PerTableIds ==
    /\ {p[1] : p \in wRefMap} = 1..Cardinality(wRefMap)
    /\ Created \subseteq wRefMap

\* the String arguments among the accepted commands: <<command, argument>>
StringArgs == {p \in (1..Len(accepted)) \X (1..2) :
                  /\ p[2] <= Len(ArgTypes(accepted[p[1]].name))
                  /\ ArgTypes(accepted[p[1]].name)[p[2]] = "GLstring"}

\* C17: the decoder is agnostic to the string scheme. Whichever of the two
\* schemes the writer used and whichever decoder the player has, every String
\* argument of an accepted command is decoded to the string that was passed.
C17_SchemeAgnostic ==
    \A p \in StringArgs :
        /\ p[1] <= Len(Decoded.commands)
        /\ Decoded.commands[p[1]].args[p[2]] = Str(accepted[p[1]].args[p[2]].s)

\* a command of the registry without arguments and without a return type
ZeroArg(name) ==
    /\ name \in KnownNames
    /\ getCommandTypes(name).argTypes = <<>>
    /\ getCommandTypes(name).returnType = "none"

\* C18: zero-argument boundary. addCommand for such a command, called with no
\* arguments, appends exactly its code word to the code stream and exactly
\* one value buffer of length 0; decoding at that word consumes one word and
\* gives a record with the command's name, no arguments and ref 0.
C18_ZeroArgBoundary ==
    [][(nCalls' = nCalls + 1 /\ ZeroArg(last'.name) /\ last'.nargs = 0)
       => /\ last'.outcome = "ok"
          /\ wCommands' = Append(wCommands, getCommandTypes(last'.name).num)
          /\ wValues' = wValues
          /\ heap' = [heap EXCEPT ![wValues] = Append(@, <<>>)]
          /\ LET r == _readCommand(Len(wCommands), wCommands', <<>>, wRefPrefix,
                                   hasTextDecoder)
             IN /\ ~r.err
                /\ r.cPt = Len(wCommands) + 1
                /\ r.vPt = 0
                /\ r.command.name = last'.name
                /\ r.command.args = <<>>
                /\ r.command.ref = Num(0)]_vars

\* a command without arguments was added after another command
C18_Witness ==
    /\ last.op = "addCommand"
    /\ last.outcome = "ok"
    /\ ZeroArg(last.name)
    /\ Len(wCommands) > 1
    /\ Len(heap[wValues]) = 2
    /\ heap[wValues][2] = <<>>

\* C19: one value buffer per command. The writer's value-buffer list has one
\* entry per command encoded in its code stream, and the i-th entry is the
\* buffer of the i-th command: the command is the i-th accepted one and the
\* buffer has the length its arguments and return slot were laid out with.
C19_OneBufferPerCommand ==
    LET starts == CodeStarts(wCommands)
    IN /\ Len(heap[wValues]) = Len(starts)
       /\ Len(accepted) = Len(starts)
       /\ \A i \in 1..Len(starts) :
             LET a == accepted[i]
                 d == getCommandTypes(a.name)
             IN /\ Word(wCommands, starts[i]) = d.num
                /\ Len(heap[wValues][i]) =
                       Offset(a.widths, Len(a.widths) + 1) + ReturnSlotBytes(d, a.args)

\* an addCommand threw in the write pass on a writer that holds a command
C19_Witness ==
    /\ last.op = "addCommand"
    /\ last.outcome = "throw"
    /\ Len(CodeStarts(wCommands)) = 1
    /\ Len(heap[wValues]) = 1

-----------------------------------------------------------------------------
(* Further properties of the player (under SpecPlayer) *)

C13_WriterClear ==
    [][/\ last'.op = "clearCommands" =>
             (wCommands' = <<>> /\ heap'[wValues'] = <<>> /\ wRefMap' = wRefMap)
       /\ last'.op = "reset" =>
             (wCommands' = <<>> /\ heap'[wValues'] = <<>> /\ wRefMap' = {})]_vars

AddAndPlay(commands, refMap, m) ==
    playback(commands \o _parse(m.data, heap[m.data.values], hasTextDecoder).commands,
             [refMap |-> refMap, glNext |-> glNext, bound |-> <<>>, calls |-> <<>>,
              err |-> FALSE],
             0, FALSE)

-----------------------------------------------------------------------------
(* The player, fed with truncated data *)

\* player.addBuffer(data) with the value buffers `values` in the place of
\* those the writer produced for m; i is the command that was damaged
AddDamaged(op, m, i, values) ==
    /\ m \in wire
    /\ LET done(r) ==
               /\ Len(pCommands) + Len(r.commands) <= MaxRecords
               /\ pCommands' = pCommands \o r.commands
               /\ pSource' = pSource \o SubSeq(m.names, 1, Len(r.commands))
               /\ pPrefix' = pPrefix \o [k \in 1..Len(r.commands) |-> m.data.refPrefix]
               /\ last' = Op(op, IF r.err THEN "throw" ELSE "ok", m.names[i], i)
       IN done(_parse(m.data, values, hasTextDecoder))
    /\ wire' = wire \ {m}
    /\ UNCHANGED <<writerVars, envVars, pRefMap, glNext, bound, calls, nCalls, nPlay>>

\* the value buffer of command i holds only its first n bytes
AddTruncated(m, i, n) ==
    /\ i \in 1..Len(heap[m.data.values])
    /\ n < Len(heap[m.data.values][i])
    /\ AddDamaged("addTruncated", m, i,
                  [heap[m.data.values] EXCEPT ![i] = SubSeq(@, 1, n)])

\* the value buffers of command i and of those after it are missing
AddShortList(m, i) ==
    /\ i \in 1..Len(heap[m.data.values])
    /\ AddDamaged("addShortList", m, i, SubSeq(heap[m.data.values], 1, i - 1))

NextTruncated ==
    \/ \E m \in wire : \E i \in 1..Len(heap[m.data.values]) :
          \E n \in 0..(Len(heap[m.data.values][i]) - 1) : AddTruncated(m, i, n)
    \/ \E m \in wire : \E i \in 1..Len(heap[m.data.values]) : AddShortList(m, i)
    \/ \E m \in wire : AddBuffer(m)
    \/ PlayerClearCommands

SpecTruncated == InitPlayer /\ [][NextTruncated]_vars

\* C11: truncated input. An addBuffer whose data lacks bytes of command i
\* (its value buffer cut short, or missing) fails, and the only records it
\* adds are those of the commands before i.
C11_TruncatedInputFails ==
    [][(last'.op \in {"addTruncated", "addShortList"} /\ wire' # wire)
       => /\ last'.outcome = "throw"
          /\ Len(pCommands') = Len(pCommands) + last'.nargs - 1]_vars

\* C11 without the commands that return a list: TLC finds this to hold
C11_ExceptListReturn ==
    [][(/\ last'.op \in {"addTruncated", "addShortList"}
        /\ wire' # wire
        /\ ~getCommandTypes(last'.name).returnList)
       => /\ last'.outcome = "throw"
          /\ Len(pCommands') = Len(pCommands) + last'.nargs - 1]_vars

-----------------------------------------------------------------------------
(* One player, fed with the recordings of two writers *)

\* refPrefix options: none, "1", "p"
Prefixes == {<<>>, <<49>>, <<112>>}

\* the id counter at the start of a recording: a new page, or a page whose
\* writers have handed out ten ids
FirstIds == {1, 11}

SharedCalls ==
    {<<"createBuffer", <<Obj(1)>>>>,
     <<"bindBuffer", <<GL_ARRAY_BUFFER, Obj(1)>>>>}

SharedFeeds == UNION {[1..n -> SharedCalls] : n \in 1..MaxFeed}

\* two writers, each in a page of its own, have recorded one buffer each with
\* different prefixes; the player and the writer of this page are new
InitShared ==
    /\ hasTextEncoder = TRUE
    /\ hasTextDecoder = TRUE
    /\ wRefPrefix = <<>>
    /\ uid = 1
    /\ refKey = [o \in Objs |-> 0]
    /\ wCommands = <<>>
    /\ wValues = 3
    /\ wRefMap = {}
    /\ \E pa \in Prefixes, pb \in Prefixes, ua \in FirstIds, ub \in FirstIds :
       \E fa \in SharedFeeds, fb \in SharedFeeds :
          LET both(ra, rb) ==
                  /\ heap = <<ra.g.heap[1], rb.g.heap[1], <<>>>>
                  /\ wire = ra.wire \cup {[m EXCEPT !.data.values = 2] : m \in rb.wire}
          IN /\ pa # pb
             /\ both(RecordedFrom(ua, fa, 0, pa, hasTextEncoder),
                     RecordedFrom(ub, fb, 0, pb, hasTextEncoder))
    /\ accepted = <<>>
    /\ pCommands = <<>>
    /\ pSource = <<>>
    /\ pPrefix = <<>>
    /\ pRefMap = {}
    /\ glNext = 1
    /\ bound = <<>>
    /\ calls = <<>>
    /\ nCalls = 0
    /\ nPlay = 0
    /\ last = Op("new", "ok", "", 0)

SpecShared == InitShared /\ [][NextPlayer]_vars

\* the reference table keys a record uses: its return id or ids and its Ref
\* and Location arguments
Keys(c) ==
    (IF c.ref.t = "key" THEN {c.ref.s}
     ELSE IF c.ref.t = "keys" THEN {c.ref.s[k] : k \in 1..Len(c.ref.s)}
     ELSE {})
    \cup {c.args[j].s : j \in {k \in 1..Len(c.types) : c.types[k] \in {"GLref", "GLlocation"}}}

\* C16: refPrefix namespacing. Records decoded from data with different
\* prefixes never use the same reference table key.
C16_PrefixNamespaces ==
    \A i, j \in 1..Len(pCommands) :
        pPrefix[i] # pPrefix[j] => Keys(pCommands[i]) \cap Keys(pCommands[j]) = {}

====
